---- MODULE Spec2Model ----
(***************************************************************************)
(* A model of rust-lingo (src/main.rs): the dictionary loading of main and *)
(* the game loop of play_game.  Characters and key codes are their integer *)
(* code points, a word is the sequence of its characters, and the board is *)
(* indexed from 0 as in the source.                                        *)
(***************************************************************************)
EXTENDS Integers, Sequences, FiniteSets, TLC

VARIABLES
    word_string,     \* main: the lines of the embedded word list
    words,           \* main/play_game: the filtered, sorted dictionary
    word,            \* play_game: the target word
    board,           \* board_state.board
    message,         \* board_state.message
    possible_words,  \* board_state.possible_words
    guess,           \* play_game: the guess typed so far
    guess_num,       \* play_game: the attempt counter
    screen,          \* what render_game drew last
    pc               \* the position of the program

vars == <<word_string, words, word, board, message, possible_words,
          guess, guess_num, screen, pc>>

----------------------------------------------------------------------------
(* Program constants *)

WORD_LENGTH == 5
GUESSES == 5

KEY_ESCAPE == 27
KEY_NEWLINE == 10
KEY_ENTER == 343
KEY_BACKSPACE == 263
KEY_DC == 330
KEY_DEL == 127

(* Bounds of the model *)

\* The longest source list SpecLoad draws.
MaxLines == 3

----------------------------------------------------------------------------
(* The words and the keys the model draws from *)

Lever == <<108, 101, 118, 101, 114>>     \* "lever"
Eerie == <<101, 101, 114, 105, 101>>     \* "eerie"
Paris == <<80, 97, 114, 105, 115>>       \* "Paris": a city name, not typeable
Tree  == <<116, 114, 101, 101>>          \* "tree": too short

\* The lines a source list of SpecLoad is made of.
LinePool == {Lever, Eerie, Paris, Tree}

\* The source lists of Spec: an unsorted list with a city name and a short
\* word, a list with a duplicate, and a list no word of which survives.
SourceLists ==
    { <<Lever, Paris, Eerie, Tree>>,
      <<Lever, Eerie, Lever>>,
      <<Paris, Tree>> }

\* The letters of the keyboard the player presses: e, i, l, r, v.
LetterKeys == {101, 105, 108, 114, 118}

\* A key that is none of the handled ones: 'A'.
OtherKeys == {65}

Keys == {KEY_ESCAPE, KEY_NEWLINE, KEY_ENTER, KEY_BACKSPACE, KEY_DC, KEY_DEL}
            \cup LetterKeys \cup OtherKeys

----------------------------------------------------------------------------
(* Values *)

NoLetter == <<"NoLetter">>
Letter(c) == <<"Letter", c>>
Wrong(c) == <<"Wrong", c>>
WrongPlace(c) == <<"WrongPlace", c>>
Correct(c) == <<"Correct", c>>

None == [some |-> FALSE, text |-> <<>>]
Some(t) == [some |-> TRUE, text |-> t]

NotInDictionaryMessage(g) == Some(<<"The word ", g, " is not in the dictionary">>)
WinMessage == Some(<<"You win! Press any key to quit">>)
LostMessage(w) == Some(<<"The word was ", w, "! Press any key to quit.">>)

DefaultGuessedWord == [i \in 0..(WORD_LENGTH - 1) |-> NoLetter]
DefaultBoard == [g \in 0..(GUESSES - 1) |-> DefaultGuessedWord]

Min(a, b) == IF a < b THEN a ELSE b

----------------------------------------------------------------------------
(* main: loading the dictionary *)

IsLowercase(chr) == chr \in 97..122

HasWordLength(w) == Len(w) = WORD_LENGTH

AllLowercase(w) == \A i \in 1..Len(w) : IsLowercase(w[i])

\* Mutant: the words that cannot be typed are kept.
FilterWordsLengthOnly(lines) == SelectSeq(lines, HasWordLength)

FilterWords(lines) == SelectSeq(SelectSeq(lines, HasWordLength), AllLowercase)

\* The order of &str: bytewise lexicographic.
RECURSIVE StrLess(_, _)
StrLess(a, b) ==
    IF Len(b) = 0 THEN FALSE
    ELSE IF Len(a) = 0 THEN TRUE
    ELSE IF a[1] # b[1] THEN a[1] < b[1]
    ELSE StrLess(Tail(a), Tail(b))

RECURSIVE InsertSorted(_, _)
InsertSorted(w, s) ==
    IF Len(s) = 0 THEN <<w>>
    ELSE IF StrLess(s[1], w) THEN <<s[1]>> \o InsertSorted(w, Tail(s))
    ELSE <<w>> \o s

\* Mutant: the list is left in the order of the source.
SortWordsNone(s) == s

RECURSIVE SortWords(_)
SortWords(s) ==
    IF Len(s) = 0 THEN <<>>
    ELSE InsertSorted(s[1], SortWords(Tail(s)))

HasAdjacentDuplicates(s) == \E i \in 1..(Len(s) - 1) : s[i] = s[i + 1]

----------------------------------------------------------------------------
(* play_game: helpers *)

\* Mutant: every guess passes for a word of the dictionary.
ContainsAlways(s, x) == TRUE

Contains(s, x) == \E i \in 1..Len(s) : s[i] = x

\* Mutant: the characters are taken one place too far.
PreviewRowShifted(g) ==
    [i \in 0..(WORD_LENGTH - 1) |->
        IF i + 2 <= Len(g) THEN Letter(g[i + 2]) ELSE NoLetter]

\* The copy of the guess string into one row of the board.
PreviewRow(g) ==
    [i \in 0..(WORD_LENGTH - 1) |->
        IF i + 1 <= Len(g) THEN Letter(g[i + 1]) ELSE NoLetter]

FitsGuess(w, g) == SubSeq(w, 1, Min(Len(g), Len(w))) = g

PossibleWords(ws, g) ==
    LET fitting == SelectSeq(ws, LAMBDA w : FitsGuess(w, g))
    IN SubSeq(fitting, 1, Min(Len(fitting), 3 + 2 * GUESSES))

\* Mutant: the branch for a letter at another place is missing.
ScoreLetterNoWrongPlace(target, index, chr) ==
    IF target[index + 1] = chr THEN Correct(chr)
    ELSE Wrong(chr)

\* Mutant: the two tests are made in the other order.
ScoreLetterContainsFirst(target, index, chr) ==
    IF \E i \in 1..Len(target) : target[i] = chr THEN WrongPlace(chr)
    ELSE IF target[index + 1] = chr THEN Correct(chr)
    ELSE Wrong(chr)

\* The verdict on one character of the guess.
ScoreLetter(target, index, chr) ==
    IF target[index + 1] = chr THEN Correct(chr)
    ELSE IF Contains(target, chr) THEN WrongPlace(chr)
    ELSE Wrong(chr)

\* Mutant: a letter counts as misplaced only as often as the target has it
\* outside the exact matches.
ScoreRowMultiplicity(target, g) ==
    LET exact(j) == target[j] = g[j]
        free(c) == Cardinality({j \in 1..Len(target) : target[j] = c /\ ~exact(j)})
        before(i) == Cardinality({j \in 1..(i - 1) : g[j] = g[i] /\ ~exact(j)})
    IN [index \in 0..(WORD_LENGTH - 1) |->
           LET i == index + 1
           IN IF exact(i) THEN Correct(g[i])
              ELSE IF before(i) < free(g[i]) THEN WrongPlace(g[i])
              ELSE Wrong(g[i])]

\* Mutant: the last character of the guess is not scored.
ScoreRowShort(target, g) ==
    [index \in 0..(WORD_LENGTH - 1) |->
        IF index < WORD_LENGTH - 1
        THEN (IF target[index + 1] = g[index + 1] THEN Correct(g[index + 1])
              ELSE IF \E i \in 1..Len(target) : target[i] = g[index + 1]
                   THEN WrongPlace(g[index + 1])
              ELSE Wrong(g[index + 1]))
        ELSE Letter(g[index + 1])]

ScoreRow(target, g) ==
    [index \in 0..(WORD_LENGTH - 1) |-> ScoreLetter(target, index, g[index + 1])]

ToAsciiLowercase(chr) == IF chr \in 65..90 THEN chr + 32 ELSE chr
ToAsciiUppercase(chr) == IF chr \in 97..122 THEN chr - 32 ELSE chr

\* Mutant: only the lengths are compared.
EqIgnoreAsciiCaseLengths(a, b) == Len(a) = Len(b)

EqIgnoreAsciiCase(a, b) ==
    /\ Len(a) = Len(b)
    /\ \A i \in 1..Len(a) : ToAsciiLowercase(a[i]) = ToAsciiLowercase(b[i])

----------------------------------------------------------------------------
(* render_game *)

\* Mutant: the two colour pairs are taken for each other.
RenderCellColoursSwapped(cell) ==
    IF cell[1] = "NoLetter" THEN <<32, "normal">>
    ELSE IF cell[1] = "Letter" THEN <<ToAsciiUppercase(cell[2]), "normal">>
    ELSE IF cell[1] = "Wrong" THEN <<ToAsciiUppercase(cell[2]), "bold">>
    ELSE IF cell[1] = "WrongPlace" THEN <<ToAsciiUppercase(cell[2]), "bold-green">>
    ELSE <<ToAsciiUppercase(cell[2]), "bold-yellow">>

\* The character and the attribute a cell is drawn with.
RenderCell(cell) ==
    IF cell[1] = "NoLetter" THEN <<32, "normal">>
    ELSE IF cell[1] = "Letter" THEN <<ToAsciiUppercase(cell[2]), "normal">>
    ELSE IF cell[1] = "Wrong" THEN <<ToAsciiUppercase(cell[2]), "bold">>
    ELSE IF cell[1] = "WrongPlace" THEN <<ToAsciiUppercase(cell[2]), "bold-yellow">>
    ELSE <<ToAsciiUppercase(cell[2]), "bold-green">>

RenderGame(b, pw, msg) ==
    [ grid |-> [g \in 0..(GUESSES - 1) |->
                   [i \in 0..(WORD_LENGTH - 1) |-> RenderCell(b[g][i])]],
      side |-> pw,
      below |-> msg ]

NoScreen == [grid |-> <<>>, side |-> <<>>, below |-> None]

----------------------------------------------------------------------------
(* The program *)

InitWith(sources) ==
    /\ word_string \in sources
    /\ words = <<>>
    /\ word = <<>>
    /\ board = DefaultBoard
    /\ message = None
    /\ possible_words = <<>>
    /\ guess = <<>>
    /\ guess_num = 0
    /\ screen = NoScreen
    /\ pc = "main"

Init == InitWith(SourceLists)

\* main: filter, sort, refuse duplicates, then call play_game.
Main ==
    /\ pc = "main"
    /\ LET sorted == SortWords(FilterWords(word_string))
       IN IF HasAdjacentDuplicates(sorted)
          THEN /\ pc' = "panic"
               /\ UNCHANGED words
          ELSE /\ words' = sorted
               /\ pc' = "play_game"
    /\ UNCHANGED <<word_string, word, board, message, possible_words,
                   guess, guess_num, screen>>

\* Mutant: the guess is copied into the row of the guess and every row after.
AwaitKeyRowsBelow(g, n, b, msg) ==
    IF n \in 0..(GUESSES - 1)
    THEN LET nb == [r \in 0..(GUESSES - 1) |->
                      IF r >= n THEN PreviewRow(g) ELSE b[r]]
             pw == PossibleWords(words', g)
         IN /\ board' = nb
            /\ possible_words' = pw
            /\ screen' = RenderGame(nb, pw, msg)
            /\ pc' = "getch"
    ELSE /\ pc' = "panic"
         /\ UNCHANGED <<board, possible_words, screen>>

\* The top of the inner loop with guess g on row n: the copy of the guess
\* into the board, the possible words, the render, then the wait for a key.
\* msg is the message the render shows.
AwaitKey(g, n, b, msg) ==
    IF n \in 0..(GUESSES - 1)
    THEN LET nb == [b EXCEPT ![n] = PreviewRow(g)]
             pw == PossibleWords(words', g)
         IN /\ board' = nb
            /\ possible_words' = pw
            /\ screen' = RenderGame(nb, pw, msg)
            /\ pc' = "getch"
    ELSE \* board[guess_num] is out of bounds
         /\ pc' = "panic"
         /\ UNCHANGED <<board, possible_words, screen>>

\* play_game up to its first getch: the target is picked at random; an
\* empty range makes gen_range panic.
PickTarget ==
    /\ pc = "play_game"
    /\ UNCHANGED <<word_string, words>>
    /\ IF Len(words) = 0
       THEN /\ pc' = "panic"
            /\ UNCHANGED <<word, board, message, possible_words,
                           guess, guess_num, screen>>
       ELSE /\ \E index \in 0..(Len(words) - 1) : word' = words[index + 1]
            /\ guess_num' = 0
            /\ guess' = <<>>
            /\ message' = None
            /\ AwaitKey(<<>>, 0, DefaultBoard, None)

\* Mutant: a letter is added to a guess of WORD_LENGTH characters too.
GuessAfterKeyOneMore(g, input) ==
    IF input \in {KEY_ENTER, KEY_NEWLINE} THEN g
    ELSE IF input \in {KEY_BACKSPACE, KEY_DC, KEY_DEL}
         THEN (IF Len(g) # 0 THEN SubSeq(g, 1, Len(g) - 1) ELSE g)
    ELSE IF input \in 97..122
         THEN (IF Len(g) <= WORD_LENGTH THEN Append(g, input) ELSE g)
    ELSE g

\* The guess after a key that does not leave the inner loop.
GuessAfterKey(g, input) ==
    IF input \in {KEY_ENTER, KEY_NEWLINE} THEN g
    ELSE IF input \in {KEY_BACKSPACE, KEY_DC, KEY_DEL}
         THEN (IF Len(g) # 0 THEN SubSeq(g, 1, Len(g) - 1) ELSE g)
    ELSE IF input \in 97..122
         THEN (IF Len(g) < WORD_LENGTH THEN Append(g, input) ELSE g)
    ELSE g

\* Mutant: Enter processes the guess whatever its length.
ReadyToSubmitAlways(g) == TRUE

\* Enter processes the guess only when it has the right amount of characters.
ReadyToSubmit(g) == Len(g) = WORD_LENGTH

\* break: out of the inner loop, to the assertion and the dictionary check.
Break ==
    /\ pc' = "validate"
    /\ UNCHANGED <<board, message, possible_words, guess, screen>>

\* Mutant: a break where the return is.
ReturnBreaks ==
    /\ pc' = "validate"
    /\ UNCHANGED <<board, message, possible_words, guess, screen>>

\* return: out of play_game.
Return ==
    /\ pc' = "done"
    /\ UNCHANGED <<board, message, possible_words, guess, screen>>

\* Mutant: the board message is not reset after a key.
GetchKeepsMessage(input) ==
    /\ pc = "getch"
    /\ UNCHANGED <<word_string, words, word, guess_num>>
    /\ IF input = KEY_ESCAPE
       THEN Return
       ELSE IF input \in {KEY_ENTER, KEY_NEWLINE} /\ ReadyToSubmit(guess)
       THEN Break
       ELSE /\ guess' = GuessAfterKey(guess, input)
            /\ message' = message
            /\ AwaitKey(guess', guess_num, board, message)

\* One key in the inner loop.
Getch(input) ==
    /\ pc = "getch"
    /\ UNCHANGED <<word_string, words, word, guess_num>>
    /\ IF input = KEY_ESCAPE
       THEN Return
       ELSE IF input \in {KEY_ENTER, KEY_NEWLINE} /\ ReadyToSubmit(guess)
       THEN Break
       ELSE /\ guess' = GuessAfterKey(guess, input)
            /\ message' = None
            /\ AwaitKey(guess', guess_num, board, None)

\* Mutant: a rejected guess stays typed, the inner loop goes on with it.
ValidateKeepsGuess ==
    /\ pc = "validate"
    /\ UNCHANGED <<word_string, words, word>>
    /\ IF Len(guess) # WORD_LENGTH
       THEN /\ pc' = "panic"
            /\ UNCHANGED <<board, message, possible_words, guess, guess_num, screen>>
       ELSE IF ~Contains(words, guess)
       THEN /\ message' = NotInDictionaryMessage(guess)
            /\ UNCHANGED <<guess, guess_num>>
            /\ AwaitKey(guess, guess_num, board, message')
       ELSE /\ board' = [board EXCEPT ![guess_num] = ScoreRow(word, guess)]
            /\ guess_num' = guess_num + 1
            /\ pc' = "scored"
            /\ UNCHANGED <<message, possible_words, guess, screen>>

\* The guess is checked against the dictionary; a known word is scored and
\* the attempt counted.
Validate ==
    /\ pc = "validate"
    /\ UNCHANGED <<word_string, words, word>>
    /\ IF Len(guess) # WORD_LENGTH
       THEN /\ pc' = "panic"
            /\ UNCHANGED <<board, message, possible_words, guess, guess_num, screen>>
       ELSE IF ~Contains(words, guess)
       THEN /\ message' = NotInDictionaryMessage(guess)
            /\ guess' = <<>>
            /\ UNCHANGED guess_num
            /\ AwaitKey(<<>>, guess_num, board, message')
       ELSE /\ board' = [board EXCEPT ![guess_num] = ScoreRow(word, guess)]
            /\ guess_num' = guess_num + 1
            /\ pc' = "scored"
            /\ UNCHANGED <<message, possible_words, guess, screen>>

\* Mutant: the amount of guesses is tested before the win.
OutcomeLoseFirst(target, g, n) ==
    IF n = GUESSES THEN "lose"
    ELSE IF g = target THEN "win"
    ELSE "continue"

\* Mutant: the game is lost one guess early.
OutcomeOneEarly(target, g, n) ==
    IF g = target THEN "win"
    ELSE IF n + 1 = GUESSES THEN "lose"
    ELSE "continue"

\* Mutant: the game is lost only past the last row.
OutcomeOneLate(target, g, n) ==
    IF g = target THEN "win"
    ELSE IF n > GUESSES THEN "lose"
    ELSE "continue"

\* The game end conditions, in the order the code tests them.
Outcome(target, g, n) ==
    IF EqIgnoreAsciiCase(target, g) THEN "win"
    ELSE IF n = GUESSES THEN "lose"
    ELSE "continue"

\* The end conditions after a scored guess.
EndCheck ==
    /\ pc = "scored"
    /\ UNCHANGED <<word_string, words, word, guess_num>>
    /\ IF Outcome(word, guess, guess_num) = "win"
       THEN /\ message' = WinMessage
            /\ screen' = RenderGame(board, possible_words, message')
            /\ pc' = "final"
            /\ UNCHANGED <<board, possible_words, guess>>
       ELSE IF Outcome(word, guess, guess_num) = "lose"
       THEN /\ message' = LostMessage(word)
            /\ screen' = RenderGame(board, possible_words, message')
            /\ pc' = "final"
            /\ UNCHANGED <<board, possible_words, guess>>
       ELSE /\ guess' = <<>>
            /\ UNCHANGED message
            /\ AwaitKey(<<>>, guess_num, board, message)

\* Mutant: the key after the last render is taken for the next guess.
FinalGetchPlaysOn(input) ==
    /\ pc = "final"
    /\ pc' = "getch"
    /\ UNCHANGED <<word_string, words, word, board, message, possible_words,
                   guess, guess_num, screen>>

\* The key awaited after the last render.
FinalGetch(input) ==
    /\ pc = "final"
    /\ pc' = "done"
    /\ UNCHANGED <<word_string, words, word, board, message, possible_words,
                   guess, guess_num, screen>>

PressKey == \E input \in Keys : Getch(input)
PressFinalKey == \E input \in Keys : FinalGetch(input)

Next == Main \/ PickTarget \/ PressKey \/ Validate \/ EndCheck \/ PressFinalKey

Spec == Init /\ [][Next]_vars

\* The loading of the dictionary alone, from every source list of at most
\* MaxLines lines of LinePool, up to the first wait for a key.
SourceListsUpTo(n) == UNION {[1..k -> LinePool] : k \in 0..n}

InitLoad == InitWith(SourceListsUpTo(MaxLines))

NextLoad == Main \/ PickTarget

SpecLoad == InitLoad /\ [][NextLoad]_vars

----------------------------------------------------------------------------
(* Properties *)

Indices == 0..(WORD_LENGTH - 1)

\* The row the last scored guess was written to.
LastRow == board[guess_num - 1]

InDictionary(g) == \E k \in DOMAIN words : words[k] = g

IsScored(cell) == cell[1] \in {"Wrong", "WrongPlace", "Correct"}

RowScored(row) == \A i \in Indices : IsScored(row[i])

OccursIn(chr, w) == \E j \in DOMAIN w : w[j] = chr

\* C1: right after a dictionary guess is scored, every cell i of its row is
\* Correct when guess[i] = target[i], otherwise WrongPlace when guess[i]
\* occurs in the target, otherwise Wrong, and carries the character guess[i].
C1_ScoringRule ==
    pc = "scored" =>
        /\ InDictionary(guess) /\ InDictionary(word)
        /\ \A i \in Indices :
              LET chr == guess[i + 1]
              IN /\ LastRow[i][2] = chr
                 /\ (chr = word[i + 1]) => LastRow[i][1] = "Correct"
                 /\ (chr # word[i + 1] /\ OccursIn(chr, word))
                        => LastRow[i][1] = "WrongPlace"
                 /\ (chr # word[i + 1] /\ ~OccursIn(chr, word))
                        => LastRow[i][1] = "Wrong"

\* A scored row of a guess that is not the target, with all three verdicts.
C1_Witness ==
    /\ pc = "scored"
    /\ guess # word
    /\ \A tag \in {"Wrong", "WrongPlace", "Correct"} :
          \E i \in Indices : LastRow[i][1] = tag

Count(chr, w) == Cardinality({j \in DOMAIN w : w[j] = chr})

\* C2: a letter of the guess that occurs in the target is WrongPlace at every
\* index where it does not match, however often the guess repeats it; the
\* guess "eerie" for the target "lever" is scored misplaced, exact,
\* misplaced, absent, misplaced.
C2_NoMultiplicity ==
    pc = "scored" =>
        /\ \A i \in Indices :
              (guess[i + 1] # word[i + 1] /\ OccursIn(guess[i + 1], word))
                  => LastRow[i] = WrongPlace(guess[i + 1])
        /\ (word = Lever /\ guess = Eerie) =>
              LastRow = [i \in Indices |->
                            <<<<"WrongPlace", 101>>, <<"Correct", 101>>,
                              <<"WrongPlace", 114>>, <<"Wrong", 105>>,
                              <<"WrongPlace", 101>>>>[i + 1]]

\* "eerie" scored for "lever": e occurs three times in the guess and twice
\* in the target, and is misplaced twice beside its exact match.
C2_Witness ==
    /\ pc = "scored"
    /\ word = Lever
    /\ guess = Eerie
    /\ Count(101, guess) > Count(101, word)
    /\ Cardinality({i \in Indices : LastRow[i] = WrongPlace(101)}) = 2

\* C3: the step that finds a full guess missing from the dictionary leaves
\* the attempt counter and every committed row alone, scores no row, sets
\* and renders the not-in-dictionary message, and waits for a key on the
\* same row.
C3_RejectedGuess ==
    [][(pc = "validate" /\ ~InDictionary(guess)) =>
          /\ guess_num' = guess_num
          /\ \A g \in DOMAIN board :
                /\ g # guess_num => board'[g] = board[g]
                /\ RowScored(board'[g]) <=> RowScored(board[g])
          /\ message' = NotInDictionaryMessage(guess)
          /\ screen'.below = message'
          /\ pc' = "getch"]_vars

\* A rejection on a later row: the message is up, the earlier rows stay
\* scored, the row is still to be played.
C3_Witness ==
    /\ pc = "getch"
    /\ message = NotInDictionaryMessage(<<108, 108, 108, 108, 108>>)
    /\ guess_num = 2
    /\ ~RowScored(board[guess_num])

\* C4: the step after a scored guess that equals the target ends the game
\* with the win message, also when the guess was the last one allowed.
C4_WinFirst ==
    [][(pc = "scored" /\ guess = word) =>
          /\ pc' = "final"
          /\ message' = WinMessage
          /\ message' # LostMessage(word)
          /\ screen'.below = WinMessage]_vars

\* Won with the last guess.
C4_Witness ==
    /\ pc = "final"
    /\ guess_num = GUESSES
    /\ guess = word
    /\ message = WinMessage

IsLostMessage(msg) == msg.some /\ msg.text[1] = "The word was "

\* C5: the step after the last allowed guess is scored and is not the target
\* ends the game with the loss message, which holds the target word; and
\* the loss message is never up with fewer than GUESSES rows scored.
C5_Loss ==
    /\ [][(pc = "scored" /\ guess_num = GUESSES /\ guess # word) =>
             /\ pc' = "final"
             /\ IsLostMessage(message')
             /\ message'.text[2] = word
             /\ screen'.below = message']_vars
    /\ [](IsLostMessage(message) =>
             /\ guess_num = GUESSES
             /\ \A g \in DOMAIN board : RowScored(board[g]))

\* Lost: five scored rows, none of them the target.
C5_Witness ==
    /\ pc = "final"
    /\ IsLostMessage(message)
    /\ message.text[2] = word
    /\ guess_num = GUESSES
    /\ \A g \in DOMAIN board : \E i \in Indices : board[g][i][1] # "Correct"

\* C6: the scored rows of the board are as many as guess_num, at most
\* GUESSES, and are the rows 0..guess_num-1.
C6_CommittedRows ==
    /\ guess_num \in 0..GUESSES
    /\ Cardinality({g \in DOMAIN board : RowScored(board[g])}) = guess_num
    /\ \A g \in DOMAIN board : RowScored(board[g]) <=> g < guess_num

\* Three rows scored and a fourth being typed.
C6_Witness ==
    /\ pc = "getch"
    /\ guess_num = 3
    /\ Len(guess) = 2
    /\ RowScored(board[2])

HasDuplicateEntry(lines) ==
    \E i, j \in DOMAIN lines :
        i # j /\ lines[i] = lines[j] /\ Len(lines[i]) = WORD_LENGTH

HasDuplicateWord(lines) ==
    \E i, j \in DOMAIN lines :
        /\ i # j /\ lines[i] = lines[j] /\ Len(lines[i]) = WORD_LENGTH
        /\ \A k \in DOMAIN lines[i] : lines[i][k] \in 97..122

GameNotStarted ==
    /\ word = <<>>
    /\ board = DefaultBoard
    /\ screen = NoScreen
    /\ guess_num = 0

\* C7 as stated: main panics for every source list with two identical
\* entries of the word length.
C7_AnyDuplicatePanics ==
    (pc # "main" /\ HasDuplicateEntry(word_string)) =>
        (pc = "panic" /\ GameNotStarted)

\* C7, amended: main panics, and no game is started, for every source list
\* with two identical entries of the word length made of the letters a..z.
C7_DuplicateWordPanics ==
    (pc # "main" /\ HasDuplicateWord(word_string)) =>
        (pc = "panic" /\ GameNotStarted)

\* The panic for a list whose two equal words are not next to each other.
C7_Witness ==
    /\ pc = "panic"
    /\ Len(word_string) = 3
    /\ word_string[1] = word_string[3]
    /\ word_string[1] # word_string[2]
    /\ HasDuplicateWord(word_string)

\* C8: the guess has WORD_LENGTH characters whenever it is validated, and
\* Enter or newline on a shorter guess changes neither the guess, nor the
\* board, nor the attempt counter, and the game keeps waiting for a key.
C8_SubmitFullLength ==
    /\ [](pc = "validate" => Len(guess) = WORD_LENGTH)
    /\ [](pc # "main" /\ Len(words) > 0 => pc # "panic")
    /\ [][(Len(guess) < WORD_LENGTH
            /\ \E input \in {KEY_ENTER, KEY_NEWLINE} : Getch(input)) =>
             /\ guess' = guess
             /\ board' = board
             /\ guess_num' = guess_num
             /\ pc' = "getch"]_vars

\* A full guess up for validation on a row after the first.
C8_Witness ==
    /\ pc = "validate"
    /\ Len(guess) = WORD_LENGTH
    /\ guess_num = 1

\* C9: Escape ends the game at once: nothing is validated or scored, the
\* counter, the board and the message stay, the message is neither the
\* win nor the loss message, and no step follows.
C9_Escape ==
    /\ [][Getch(KEY_ESCAPE) =>
             /\ pc' = "done"
             /\ UNCHANGED <<guess_num, board, guess, message, screen>>
             /\ message' # WinMessage
             /\ ~IsLostMessage(message')]_vars
    /\ [][pc # "done"]_vars

\* The game left by Escape in the middle of the third row.
C9_Witness ==
    /\ pc = "done"
    /\ guess_num = 2
    /\ Len(guess) = 3
    /\ message = None

\* C10: a scored guess that is the target has Correct at every index.
C10_TargetAllCorrect ==
    (pc = "scored" /\ guess = word) =>
        \A i \in Indices : LastRow[i] = Correct(word[i + 1])

\* The target "eerie" guessed.
C10_Witness ==
    /\ pc = "scored"
    /\ guess = word
    /\ word = Eerie
    /\ RowScored(LastRow)

\* C11: while a guess is typed or validated, cell i of the row guess_num is
\* Letter(c) for the i-th typed character c and NoLetter past the typed
\* characters; and no step taken while waiting for a key, and no rejection,
\* changes a row other than the row guess_num.
C11_LivePreview ==
    /\ [](pc \in {"getch", "validate"} =>
             \A i \in Indices :
                 board[guess_num][i] =
                     IF i < Len(guess) THEN <<"Letter", guess[i + 1]>>
                     ELSE <<"NoLetter">>)
    /\ [][(pc = "getch" \/ (pc = "validate" /\ ~InDictionary(guess))) =>
             \A g \in DOMAIN board : g # guess_num => board'[g] = board[g]]_vars

\* Three characters typed on the third row, under two scored rows.
C11_Witness ==
    /\ pc = "getch"
    /\ guess_num = 2
    /\ guess = <<114, 101, 118>>
    /\ board[2][2] = Letter(118)
    /\ board[2][3] = NoLetter
    /\ RowScored(board[0]) /\ RowScored(board[1])

\* C12: every row of the board past the row guess_num has only NoLetter.
C12_RowsBeyondEmpty ==
    \A g \in DOMAIN board :
        g > guess_num => \A i \in Indices : board[g][i] = <<"NoLetter">>

\* A full guess typed on the second row, the three rows below it empty.
C12_Witness ==
    /\ pc = "getch"
    /\ guess_num = 1
    /\ Len(guess) = WORD_LENGTH
    /\ board[1] = PreviewRow(guess)
    /\ \A g \in 2..(GUESSES - 1) : board[g] = DefaultGuessedWord

\* What a cell shows: its character in upper case, or a blank, and the
\* attribute of its state.
Shown(cell) ==
    << IF cell[1] = "NoLetter" THEN 32 ELSE cell[2] - 32,
       CASE cell[1] \in {"NoLetter", "Letter"} -> "normal"
         [] cell[1] = "Wrong" -> "bold"
         [] cell[1] = "WrongPlace" -> "bold-yellow"
         [] cell[1] = "Correct" -> "bold-green" >>

GridShown ==
    \A g \in DOMAIN board : \A i \in Indices : screen.grid[g][i] = Shown(board[g][i])

StartsWith(w, g) == Len(g) <= Len(w) /\ \A k \in DOMAIN g : w[k] = g[k]

\* C13 as stated: whenever the game waits for a key, the screen shows the
\* cells of the board and the message, and nothing else.
C13_OnlyBoardAndMessage ==
    pc \in {"getch", "final"} =>
        /\ GridShown
        /\ screen.below = message
        /\ screen.side = <<>>

\* C13, amended: whenever the game waits for a key, the screen shows the
\* cells of the board, the message, and beside the board the list
\* possible_words, which while a guess is typed holds the words of the
\* dictionary that start with the typed characters; the screen is that
\* function of the board, the message and the list.
C13_BoardMessageAndPossibleWords ==
    pc \in {"getch", "final"} =>
        /\ GridShown
        /\ screen.below = message
        /\ screen.side = possible_words
        /\ pc = "getch" =>
              /\ \A k \in DOMAIN screen.side :
                    InDictionary(screen.side[k]) /\ StartsWith(screen.side[k], guess)
              /\ Len(screen.side) <= 3 + 2 * GUESSES
              /\ Len(screen.side) < 3 + 2 * GUESSES =>
                    \A k \in DOMAIN words :
                        StartsWith(words[k], guess) =>
                            \E j \in DOMAIN screen.side : screen.side[j] = words[k]

\* The render after a rejection on the second row: a scored row, the
\* message, and the whole dictionary beside the board.
C13_Witness ==
    /\ pc = "getch"
    /\ guess_num = 1
    /\ screen.below.some
    /\ Len(screen.side) = 2
    /\ \E i \in Indices : screen.grid[0][i][2] = "bold-yellow"
    /\ \E i \in Indices : screen.grid[0][i][2] = "bold-green"

\* C14: after the win or the loss the board is rendered with the final
\* message, the one step that follows is the key that ends the program, and
\* it changes neither the board, nor the attempt counter, nor the guess,
\* nor the message, nor the screen; no step follows it.
C14_TerminalOutcome ==
    /\ [](pc = "final" =>
             /\ message \in {WinMessage, LostMessage(word)}
             /\ screen.below = message
             /\ GridShown)
    /\ [][pc = "final" =>
             /\ pc' = "done"
             /\ UNCHANGED <<board, guess_num, guess, message, screen>>]_vars
    /\ [][(message \in {WinMessage, LostMessage(word)}) =>
             (pc = "final" /\ pc' = "done")]_vars

\* The program ended by the key after a win.
C14_Witness ==
    /\ pc = "done"
    /\ message = WinMessage
    /\ screen.below = WinMessage
    /\ guess_num \in 1..GUESSES

\* No line of the source is a word of WORD_LENGTH letters a..z.
NoUsableWord(lines) ==
    \A k \in DOMAIN lines :
        Len(lines[k]) # WORD_LENGTH \/ \E j \in DOMAIN lines[k] : lines[k][j] \notin 97..122

\* C15: with a source list that leaves the dictionary empty, main hands the
\* empty dictionary to play_game, the step of play_game that picks the
\* target panics, and no target, board row, render or guess ever exists.
C15_EmptyDictionaryAborts ==
    /\ [](NoUsableWord(word_string) =>
             /\ pc \in {"main", "play_game", "panic"}
             /\ words = <<>>
             /\ GameNotStarted
             /\ guess = <<>>)
    /\ [][NoUsableWord(word_string) =>
             /\ pc = "main" => pc' = "play_game"
             /\ pc = "play_game" => pc' = "panic"]_vars

\* The panic of play_game for a source list of a city name and a short word.
C15_Witness ==
    /\ pc = "panic"
    /\ Len(word_string) = 2
    /\ word_string[1] # word_string[2]
    /\ NoUsableWord(word_string)
    /\ GameNotStarted

IsLetterKey(input) == input >= 97 /\ input <= 122

\* C16: the guess has at most WORD_LENGTH characters, all of a..z; a key
\* a..z appends its letter to a guess shorter than WORD_LENGTH and is
\* ignored otherwise, backspace and delete remove the last character of a
\* guess that has one, and any other key leaves the guess as it is.
C16_TypedGuess ==
    /\ [](/\ Len(guess) \in 0..WORD_LENGTH
          /\ \A k \in DOMAIN guess : IsLetterKey(guess[k]))
    /\ [][\A input \in Keys :
            \/ /\ (IsLetterKey(input) /\ Len(guess) < WORD_LENGTH)
                      => guess' = guess \o <<input>>
               /\ (IsLetterKey(input) /\ Len(guess) >= WORD_LENGTH)
                      => guess' = guess
               /\ (input \in {KEY_BACKSPACE, KEY_DC, KEY_DEL} /\ Len(guess) > 0)
                      => guess' = [k \in 1..(Len(guess) - 1) |-> guess[k]]
               /\ (input \in {KEY_BACKSPACE, KEY_DC, KEY_DEL} /\ Len(guess) = 0)
                      => guess' = <<>>
               /\ (~IsLetterKey(input) /\ input \notin {KEY_BACKSPACE, KEY_DC, KEY_DEL})
                      => guess' = guess
            \/ ~Getch(input)]_vars

\* A guess of WORD_LENGTH letters that is no word, typed on the first row.
C16_Witness ==
    /\ pc = "getch"
    /\ guess_num = 0
    /\ guess = <<118, 105, 108, 108, 105>>

\* C17: while the game waits for a key or is about to validate and score a
\* guess, guess_num is an index of the board; no write to board[guess_num]
\* is out of bounds, so a game that started never panics.
C17_RowInBounds ==
    /\ pc \in {"getch", "validate"} => guess_num \in DOMAIN board
    /\ (pc = "panic") => (word = <<>> /\ screen = NoScreen)

\* The last allowed guess up for validation, a word of the dictionary.
C17_Witness ==
    /\ pc = "validate"
    /\ guess_num = GUESSES - 1
    /\ InDictionary(guess)
    /\ guess # word

AllCorrect(row) == \A i \in Indices : row[i][1] = "Correct"

\* C18: the step after a guess is scored ends the game with the win message
\* exactly when the row just scored is Correct at every index; and the win
\* message is never up unless the last scored row is all Correct.
C18_WonIffAllCorrect ==
    /\ [][pc = "scored" => (message' = WinMessage <=> AllCorrect(LastRow))]_vars
    /\ [](message = WinMessage => (guess_num > 0 /\ AllCorrect(LastRow)))

\* Won with the second guess: the first row has a cell that is not Correct.
C18_Witness ==
    /\ pc = "final"
    /\ message = WinMessage
    /\ guess_num = 2
    /\ AllCorrect(board[1])
    /\ ~AllCorrect(board[0])

\* C19: the step that rejects a guess empties the guess, and the render it
\* ends with shows every cell of the row guess_num empty.
C19_RejectedGuessDiscarded ==
    [][(pc = "validate" /\ ~InDictionary(guess)) =>
          /\ guess' = <<>>
          /\ pc' = "getch"
          /\ \A i \in Indices :
                /\ board'[guess_num][i] = <<"NoLetter">>
                /\ screen'.grid[guess_num][i] = <<32, "normal">>]_vars

\* The empty second row after a rejected guess.
C19_Witness ==
    /\ pc = "getch"
    /\ guess_num = 1
    /\ guess = <<>>
    /\ message.some
    /\ message.text[1] = "The word "
    /\ board[1] = DefaultGuessedWord

\* C20: a message is on the screen of a game waiting for a guess only right
\* after a rejection, the guess still empty; the step of any key that keeps
\* the game waiting clears the message and renders without it; and the
\* message is None whenever a guess is up for validation.
C20_TransientMessage ==
    /\ []((pc = "getch" /\ (message.some \/ screen.below.some)) =>
             /\ guess = <<>>
             /\ screen.below = message
             /\ message.text[1] = "The word ")
    /\ []((pc \in {"validate", "scored"}) => (message = None /\ screen.below = None))
    /\ []((pc = "final") => (message.some /\ screen.below = message))
    /\ [][(pc = "getch" /\ pc' = "getch") =>
             (message' = None /\ screen'.below = None)]_vars

\* The render that follows a rejection on the fourth row: the one render of
\* a game in progress that shows a message.
C20_Witness ==
    /\ pc = "getch"
    /\ guess_num = 3
    /\ guess = <<>>
    /\ screen.below.some
    /\ screen.below = message

====
